---- MODULE Spec2Model ----
(***************************************************************************)
(* Model of the scripts of pre_mission that carry state and algorithms:     *)
(*   facemesh_filter.py  - overlay asset loader, alpha compositing, eye    *)
(*                         geometry and the webcam frame loop of main()    *)
(*   chat_client.py      - MiniMaxChatClient.get_response and its history  *)
(* Each component has its own specification over the shared variables; the *)
(* variables of the other components keep their initial value.             *)
(***************************************************************************)
EXTENDS Integers, Sequences, FiniteSets, TLC

VARIABLES
    \* overlay_image_alpha
    background,     \* the background raster passed in (before the call)
    overlay,        \* the overlay raster (BGRA)
    ox, oy,         \* placement of the overlay's top-left corner
    composited,     \* the call's outcome: [returned, img, err]
    \* load_sunglasses_with_alpha
    source,         \* the asset file: [kind, img]
    loaded,         \* the loader's outcome: [status, img, printed]
    \* eye geometry of one face
    left_iris,      \* landmark 468 as <<x, y>>, in units of 1 / LmGrid
    right_iris,     \* landmark 473
    geometry,       \* the derived [left, right, angle], angle = [lo, hi] degrees
    \* main() of the webcam filter and its environment
    pc,             \* the statement main() is at
    model_file,     \* face_landmarker.task: "missing", "invalid" or "valid"
    camera_available, \* whether camera 0 can be opened
    cam_opened,     \* cap.isOpened()
    cam_acquired,   \* the camera was opened by this run
    cam_released,   \* cap.release() was called
    window,         \* the display window exists
    stdout,         \* the messages printed so far
    traceback,      \* the uncaught exception main() died of, or "none"
    captured,       \* a frame was captured
    detected,       \* the detector ran on a frame
    displayed,      \* a frame was shown
    current_time,   \* time.time() of the current frame, in ticks
    last_print_time,
    faces_left,     \* faces of the current frame still to process
    nose_prints,    \* the capture timestamps of the frames that printed a nose tip
    q_pending,      \* the user pressed 'q' and no waitKey has returned it yet
    \* MiniMaxChatClient and main() of the chat client
    history,        \* self.history
    chat_pc,        \* where the chat client is
    attempt,        \* the attempt number of the running get_response call
    sent            \* the messages passed to the API by the latest attempt

ovVars == <<background, overlay, ox, oy, composited>>
ldVars == <<source, loaded>>
geVars == <<left_iris, right_iris, geometry>>
mainVars == <<pc, model_file, camera_available, cam_opened, cam_acquired, cam_released,
              window, stdout, traceback, captured, detected, displayed, current_time,
              last_print_time, faces_left, nose_prints, q_pending>>
chatVars == <<history, chat_pc, attempt, sent>>
vars == <<ovVars, ldVars, geVars, mainVars, chatVars>>

Max(a, b) == IF a >= b THEN a ELSE b
Min(a, b) == IF a <= b THEN a ELSE b


(***************************************************************************)
(* Rasters: numpy arrays of shape (h, w, channels) with uint8 entries, as  *)
(* records [h, w, px] where px maps <<row, col>> (0-based) to the tuple of *)
(* channel values.                                                         *)
(***************************************************************************)
Positions(h, w) == (0 .. h - 1) \X (0 .. w - 1)

NoRaster == [h |-> 0, w |-> 0, px |-> [p \in {} |-> <<>>]]

\* The value of a call's outcome before the call is made.
NotCalled == [returned |-> FALSE, img |-> NoRaster, err |-> FALSE]

\* Sizes of the rasters the compositing is run on.
BgH == 2
BgW == 3
OvH == 2
OvW == 2

\* Channel values and transparency values the rasters are filled with.
PixelSeq == <<0, 3, 100, 255>>
AlphaSeq == <<0, 5, 128, 255>>

Cyc(seq, k) == seq[(k % Len(seq)) + 1]

\* A background whose channel values run through PixelSeq from offset seed.
BgImage(seed) ==
    LET pixel(r, c) == LET k == seed + r * BgW + c
                       IN <<Cyc(PixelSeq, k), Cyc(PixelSeq, k + 1), Cyc(PixelSeq, k + 2)>>
    IN [h |-> BgH, w |-> BgW, px |-> [p \in Positions(BgH, BgW) |-> pixel(p[1], p[2])]]

\* An overlay whose colours run through PixelSeq from offset cseed; its
\* transparency is uniform (amode within AlphaSeq) or runs through AlphaSeq.
OvImage(cseed, amode) ==
    LET pixel(i, j) ==
            LET k == cseed + i * OvW + j
                a == IF amode <= Len(AlphaSeq) THEN AlphaSeq[amode]
                     ELSE Cyc(AlphaSeq, k + amode)
            IN <<Cyc(PixelSeq, k), Cyc(PixelSeq, k + 1), Cyc(PixelSeq, k + 2), a>>
    IN [h |-> OvH, w |-> OvW, px |-> [p \in Positions(OvH, OvW) |-> pixel(p[1], p[2])]]

(***************************************************************************)
(* overlay_image_alpha                                                     *)
(***************************************************************************)

\* Python's normalisation of a slice bound i for a dimension of length n.
PyBound(i, n) == IF i < 0 THEN Max(i + n, 0) ELSE Min(i, n)

\* The indices selected by a[lo:hi] on a dimension of length n, in order.
PySlice(lo, hi, n) ==
    LET a == PyBound(lo, n)
        b == PyBound(hi, n)
    IN [k \in 1 .. Max(b - a, 0) |-> a + k - 1]

\* numpy broadcasting of an overlay slice dimension of length no against the
\* background slice dimension of length nb it is assigned into.
Broadcastable(no, nb) == no = nb \/ no = 1

\* if x >= bg_w or y >= bg_h: return background
OutsideRightOrBottom(x, y, bg_w, bg_h) == x >= bg_w \/ y >= bg_h

NeverOutside(x, y, w, h) == FALSE

\* if x + w <= 0 or y + h <= 0: return background
OutsideLeftOrTop(x, y, w, h) == x + w <= 0 \/ y + h <= 0

\* x1 = max(0, x), y1 = max(0, y)
clip_lo(x) == Max(0, x)

\* x2 = min(bg_w, x + w), y2 = min(bg_h, y + h)
clip_hi(bg_n, x, n) == Min(bg_n, x + n)

overlay_lo_unshifted(x1, x) == 0

\* overlay_x1 = x1 - x, overlay_y1 = y1 - y
overlay_lo(x1, x) == x1 - x

\* overlay_x2 = overlay_x1 + (x2 - x1), overlay_y2 = overlay_y1 + (y2 - y1)
overlay_hi(o1, x1, x2) == o1 + (x2 - x1)

\* The channel triples <<overlay, background, alpha>> over PixelSeq and AlphaSeq
\* for which the float64 evaluation of o * (a / 255.0) + b * (1 - a / 255.0)
\* falls just below the integer the exact blend equals (2.9999999999999996
\* for 3, 3, 5), so that astype(np.uint8) truncates it to one less.
Float64Shortfall == {<<3, 3, 5>>, <<100, 100, 5>>}

\* alpha = a / 255.0; (o * alpha + b * (1 - alpha)).astype(np.uint8) for one
\* channel: the float64 blend truncated toward zero.
blend(o, b, a) ==
    LET exact255 == o * a + b * (255 - a)
    IN (exact255 \div 255) - (IF <<o, b, a>> \in Float64Shortfall THEN 1 ELSE 0)

overlay_image_alpha(bg, ov, x, y) ==
    LET h == ov.h
        w == ov.w
        bg_h == bg.h
        bg_w == bg.w
    IN IF OutsideRightOrBottom(x, y, bg_w, bg_h) THEN [returned |-> TRUE, img |-> bg, err |-> FALSE]
       ELSE IF OutsideLeftOrTop(x, y, w, h) THEN [returned |-> TRUE, img |-> bg, err |-> FALSE]
       ELSE
         LET x1 == clip_lo(x)
             y1 == clip_lo(y)
             x2 == clip_hi(bg_w, x, w)
             y2 == clip_hi(bg_h, y, h)
             overlay_x1 == overlay_lo(x1, x)
             overlay_y1 == overlay_lo(y1, y)
             overlay_x2 == overlay_hi(overlay_x1, x1, x2)
             overlay_y2 == overlay_hi(overlay_y1, y1, y2)
             \* overlay[overlay_y1:overlay_y2, overlay_x1:overlay_x2]
             ovRows == PySlice(overlay_y1, overlay_y2, h)
             ovCols == PySlice(overlay_x1, overlay_x2, w)
             \* background[y1:y2, x1:x2]
             roiRows == PySlice(y1, y2, bg_h)
             roiCols == PySlice(x1, x2, bg_w)
             Src(seq, n, k) == IF Len(seq) = n THEN seq[k] ELSE seq[1]
             blended(i, j) ==
                 LET o == ov.px[<<Src(ovRows, Len(roiRows), i), Src(ovCols, Len(roiCols), j)>>]
                     b == bg.px[<<roiRows[i], roiCols[j]>>]
                 IN [ch \in 1 .. Len(b) |-> blend(o[ch], b[ch], o[4])]
         IN IF ~(Broadcastable(Len(ovRows), Len(roiRows))
                 /\ Broadcastable(Len(ovCols), Len(roiCols)))
            THEN [returned |-> FALSE, img |-> bg, err |-> TRUE]    \* ValueError: shapes do not broadcast
            ELSE [returned |-> TRUE, img |-> [bg EXCEPT !.px =
                            [p \in DOMAIN bg.px |->
                               IF \E i \in DOMAIN roiRows, j \in DOMAIN roiCols :
                                      roiRows[i] = p[1] /\ roiCols[j] = p[2]
                               THEN blended(p[1] - roiRows[1] + 1, p[2] - roiCols[1] + 1)
                               ELSE bg.px[p]]],
                  err |-> FALSE]

(***************************************************************************)
(* load_sunglasses_with_alpha                                              *)
(***************************************************************************)

\* white_mask = gray > 240
WhiteThreshold == 240

\* Sizes of the asset rasters the loader is run on.
LdH == 2
LdW == 2

\* BGR colours the asset rasters are filled with: all brighter than the
\* threshold; all at or above it; all darker; mixed.
PaletteBright == << <<255, 255, 255>>, <<241, 241, 241>>, <<200, 255, 255>> >>
PaletteAtOrAbove == << <<240, 240, 240>>, <<255, 255, 255>>, <<241, 241, 241>> >>
PaletteDark == << <<0, 0, 0>>, <<239, 239, 239>>, <<0, 0, 255>> >>
PaletteMixed == << <<255, 255, 255>>, <<0, 0, 0>>, <<240, 240, 240>>, <<230, 245, 240>> >>
Palettes == {PaletteBright, PaletteAtOrAbove, PaletteDark, PaletteMixed}

\* A decoded asset of 3 (BGR) or 4 (BGRA) channels.
SrcImage(palette, seed, channels, aseed) ==
    LET pixel(r, c) ==
            LET k == seed + r * LdW + c
                v == Cyc(palette, k)
            IN IF channels = 3 THEN v ELSE v \o <<Cyc(AlphaSeq, k + aseed)>>
    IN [h |-> LdH, w |-> LdW, px |-> [p \in Positions(LdH, LdW) |-> pixel(p[1], p[2])]]

Sources ==
    {[kind |-> "missing", img |-> NoRaster], [kind |-> "undecodable", img |-> NoRaster]}
    \cup {[kind |-> "image", img |-> SrcImage(pal, seed, 3, 0)] :
              pal \in Palettes, seed \in 0 .. Len(AlphaSeq) - 1}
    \cup {[kind |-> "image", img |-> SrcImage(pal, seed, 4, aseed)] :
              pal \in Palettes, seed \in 0 .. Len(AlphaSeq) - 1,
              aseed \in 0 .. Len(AlphaSeq) - 1}

LoaderNotCalled == [status |-> "notcalled", img |-> NoRaster, printed |-> {}]

\* cv2.cvtColor(img[:, :, :3], cv2.COLOR_BGR2GRAY) for one 8-bit pixel:
\* OpenCV's fixed-point luma, (B*3735 + G*19235 + R*9798 + 2^14) >> 15.
gray(v) == (v[1] * 3735 + v[2] * 19235 + v[3] * 9798 + 16384) \div 32768

white_mask_dark(g) == g < WhiteThreshold

\* white_mask = gray > 240
white_mask(g) == g > WhiteThreshold

\* np.where(white_mask, 0, 255) of the 3-channel branch
alpha_new(mask) == IF mask THEN 0 ELSE 255

alpha_keep_overwrite(mask, a) == IF mask THEN 0 ELSE 255

\* np.where(white_mask, 0, img[:, :, 3]) of the 4-channel branch
alpha_keep(mask, a) == IF mask THEN 0 ELSE a

load_sunglasses_with_alpha(src) ==
    IF src.kind = "missing"
    THEN \* open(image_path, "rb") raises FileNotFoundError
         [status |-> "raised", img |-> NoRaster, printed |-> {}]
    ELSE IF src.kind = "undecodable"
    THEN \* img is None
         [status |-> "none", img |-> NoRaster,
          printed |-> {"Error: Could not load sunglasses image"}]
    ELSE LET img == src.img
         IN [status |-> "image",
             img |-> [img EXCEPT !.px =
                        [p \in DOMAIN img.px |->
                           LET v == img.px[p]
                               mask == white_mask(gray(v))
                           IN IF Len(v) = 3
                              THEN <<v[1], v[2], v[3], alpha_new(mask)>>
                              ELSE <<v[1], v[2], v[3], alpha_keep(mask, v[4])>>]],
             printed |-> {}]

(***************************************************************************)
(* Eye geometry of main(): to_px and the rotation angle                    *)
(***************************************************************************)

\* Landmark coordinates are multiples of 1 / 2^LmBits (exact in float64),
\* from one step outside the frame on either side.
LmBits == 2
LmGrid == 2 ^ LmBits
LmCoords == -1 .. LmGrid + 1

\* h, w, _ = image.shape
FrameH == 3
FrameW == 4

\* int(): truncation toward zero
TruncDiv(a, b) == IF a >= 0 THEN a \div b ELSE -((-a) \div b)

\* to_px(lm) = (int(lm.x * w), int(lm.y * h))
to_px(lm) == <<TruncDiv(lm[1] * FrameW, LmGrid), TruncDiv(lm[2] * FrameH, LmGrid)>>

Exactly(d) == [lo |-> d, hi |-> d]
Between(lo, hi) == [lo |-> lo, hi |-> hi]

\* np.degrees(np.arctan2(dy, dx)): exact on the axes and the diagonals,
\* otherwise a value strictly between the two neighbouring multiples of 45.
atan2_degrees(dy, dx) ==
    IF dy = 0 THEN (IF dx >= 0 THEN Exactly(0) ELSE Exactly(180))
    ELSE IF dx = 0 THEN (IF dy > 0 THEN Exactly(90) ELSE Exactly(-90))
    ELSE LET s == IF dy > 0 THEN 1 ELSE -1
             ax == IF dx > 0 THEN dx ELSE -dx
             ay == IF dy > 0 THEN dy ELSE -dy
             \* the angle of (ax, ay) in the first quadrant
             q == IF ay = ax THEN Exactly(45)
                  ELSE IF ay < ax THEN Between(0, 45) ELSE Between(45, 90)
             \* mirrored for dx < 0
             m == IF dx > 0 THEN q ELSE Between(180 - q.hi, 180 - q.lo)
         IN IF s = 1 THEN m ELSE Between(-m.hi, -m.lo)

angle_of_swapped(left, right) == atan2_degrees(right[1] - left[1], right[2] - left[2])

\* angle = np.degrees(np.arctan2(right[1] - left[1], right[0] - left[0]))
angle_of(left, right) == atan2_degrees(right[2] - left[2], right[1] - left[1])

GeometryNotDerived == [derived |-> FALSE, left |-> <<0, 0>>, right |-> <<0, 0>>,
                       angle |-> Exactly(0)]

eye_geometry(l, r) ==
    LET left_eye_center == to_px(l)
        right_eye_center == to_px(r)
    IN [derived |-> TRUE, left |-> left_eye_center, right |-> right_eye_center,
        angle |-> angle_of(left_eye_center, right_eye_center)]

(***************************************************************************)
(* main() of the webcam filter                                             *)
(***************************************************************************)

\* num_faces=5
num_faces == 5

\* Clock resolution, and the span of time.time() readings after the start.
TicksPerSecond == 2
MaxElapsed == 7
ClockStart == 2 * TicksPerSecond
Clock == ClockStart .. ClockStart + MaxElapsed

Terminal == {"returned", "crashed"}
InLoop == {"loop_test", "read", "faces", "waitkey"}

\* The asset files main() is run with.
MainSources ==
    {[kind |-> "missing", img |-> NoRaster], [kind |-> "undecodable", img |-> NoRaster],
     [kind |-> "image", img |-> SrcImage(PaletteMixed, 0, 3, 0)]}

after_load_no_return(result) == "open_cam"

\* if sunglasses_img is None: print(...); return
after_load(result) == IF result.status = "none" THEN "returned" ELSE "open_cam"

print_due_inclusive(now, last) == now - last >= TicksPerSecond

\* if current_time - last_print_time > 1.0
print_due(now, last) == now - last > TicksPerSecond

\* with open(model_path, "rb") as f: model_data = f.read()
ReadModel ==
    /\ pc = "read_model"
    /\ IF model_file = "missing"
       THEN pc' = "crashed" /\ traceback' = "FileNotFoundError"
       ELSE pc' = "load_asset" /\ UNCHANGED traceback
    /\ UNCHANGED <<model_file, camera_available, cam_opened, cam_acquired, cam_released,
                   window, stdout, captured, detected, displayed, current_time,
                   last_print_time, faces_left, nose_prints, q_pending>>
    /\ UNCHANGED <<ovVars, ldVars, geVars, chatVars>>

\* sunglasses_img = load_sunglasses_with_alpha(sunglasses_path) and its check
LoadAsset ==
    /\ pc = "load_asset"
    /\ loaded' = load_sunglasses_with_alpha(source)
    /\ IF loaded'.status = "raised"
       THEN /\ pc' = "crashed"
            /\ traceback' = "FileNotFoundError"
            /\ UNCHANGED stdout
       ELSE /\ pc' = after_load(loaded')
            /\ stdout' = stdout \cup loaded'.printed \cup
                   (IF loaded'.status = "none"
                    THEN {"Error: Failed to load sunglasses image."} ELSE {})
            /\ UNCHANGED traceback
    /\ UNCHANGED <<model_file, camera_available, cam_opened, cam_acquired, cam_released,
                   window, captured, detected, displayed, current_time,
                   last_print_time, faces_left, nose_prints, q_pending>>
    /\ UNCHANGED <<ovVars, source, geVars, chatVars>>

\* cap = cv2.VideoCapture(0); if not cap.isOpened(): print(...); return
OpenCam ==
    /\ pc = "open_cam"
    /\ IF camera_available
       THEN /\ cam_opened' = TRUE
            /\ cam_acquired' = TRUE
            /\ stdout' = stdout \cup {"Press 'q' to exit."}
            /\ pc' = "create_landmarker"
       ELSE /\ stdout' = stdout \cup {"Error: Could not open webcam."}
            /\ pc' = "returned"
            /\ UNCHANGED <<cam_opened, cam_acquired>>
    /\ UNCHANGED <<model_file, camera_available, cam_released, window, traceback,
                   captured, detected, displayed, current_time, last_print_time,
                   faces_left, nose_prints, q_pending>>
    /\ UNCHANGED <<ovVars, ldVars, geVars, chatVars>>

\* with FaceLandmarker.create_from_options(options) as landmarker: raises on
\* model bytes that are no model; nothing catches it.
CreateLandmarker ==
    /\ pc = "create_landmarker"
    /\ IF model_file = "invalid"
       THEN pc' = "crashed" /\ traceback' = "RuntimeError"
       ELSE pc' = "loop_test" /\ UNCHANGED traceback
    /\ UNCHANGED <<model_file, camera_available, cam_opened, cam_acquired, cam_released,
                   window, stdout, captured, detected, displayed, current_time,
                   last_print_time, faces_left, nose_prints, q_pending>>
    /\ UNCHANGED <<ovVars, ldVars, geVars, chatVars>>

\* while cap.isOpened():
LoopTest ==
    /\ pc = "loop_test"
    /\ pc' = IF cam_opened THEN "read" ELSE "release"
    /\ UNCHANGED <<model_file, camera_available, cam_opened, cam_acquired, cam_released,
                   window, stdout, traceback, captured, detected, displayed, current_time,
                   last_print_time, faces_left, nose_prints, q_pending>>
    /\ UNCHANGED <<ovVars, ldVars, geVars, chatVars>>

\* success, image = cap.read(); if not success: print(...); continue
\* otherwise flip, current_time = time.time(), detect_for_video
ReadFrame ==
    /\ pc = "read"
    /\ \E success \in (IF cam_opened THEN BOOLEAN ELSE {FALSE}) :
          IF success
          THEN /\ captured' = TRUE
               /\ detected' = TRUE
               /\ current_time' \in Clock
               /\ faces_left' \in 0 .. num_faces
               /\ pc' = "faces"
               /\ UNCHANGED stdout
          ELSE /\ stdout' = stdout \cup {"Ignoring empty camera frame."}
               /\ pc' = "loop_test"
               /\ UNCHANGED <<captured, detected, current_time, faces_left>>
    /\ UNCHANGED <<model_file, camera_available, cam_opened, cam_acquired, cam_released,
                   window, traceback, displayed, last_print_time, nose_prints, q_pending>>
    /\ UNCHANGED <<ovVars, ldVars, geVars, chatVars>>

\* the body of "for face_landmarks in result.face_landmarks" for one face:
\* the overlay is composited, then the nose tip is printed when due
ProcessFace ==
    /\ pc = "faces"
    /\ faces_left > 0
    /\ faces_left' = faces_left - 1
    /\ IF print_due(current_time, last_print_time)
       THEN /\ stdout' = stdout \cup {"Nose Tip"}
            /\ nose_prints' = Append(nose_prints, current_time)
            /\ last_print_time' = current_time
       ELSE UNCHANGED <<stdout, nose_prints, last_print_time>>
    /\ UNCHANGED <<pc, model_file, camera_available, cam_opened, cam_acquired,
                   cam_released, window, traceback, captured, detected, displayed,
                   current_time, q_pending>>
    /\ UNCHANGED <<ovVars, ldVars, geVars, chatVars>>

\* cv2.imshow('MediaPipe FaceMesh Filter', image)
Show ==
    /\ pc = "faces"
    /\ faces_left = 0
    /\ window' = TRUE
    /\ displayed' = TRUE
    /\ pc' = "waitkey"
    /\ UNCHANGED <<model_file, camera_available, cam_opened, cam_acquired, cam_released,
                   stdout, traceback, captured, detected, current_time, last_print_time,
                   faces_left, nose_prints, q_pending>>
    /\ UNCHANGED <<ovVars, ldVars, geVars, chatVars>>

\* if cv2.waitKey(5) & 0xFF == ord('q'): break
WaitKey ==
    /\ pc = "waitkey"
    /\ pc' = IF q_pending THEN "release" ELSE "loop_test"
    /\ q_pending' = FALSE
    /\ UNCHANGED <<model_file, camera_available, cam_opened, cam_acquired, cam_released,
                   window, stdout, traceback, captured, detected, displayed, current_time,
                   last_print_time, faces_left, nose_prints>>
    /\ UNCHANGED <<ovVars, ldVars, geVars, chatVars>>

\* cap.release(); cv2.destroyAllWindows()
Release ==
    /\ pc = "release"
    /\ cam_opened' = FALSE
    /\ cam_released' = TRUE
    /\ window' = FALSE
    /\ pc' = "returned"
    /\ UNCHANGED <<model_file, camera_available, cam_acquired, stdout, traceback,
                   captured, detected, displayed, current_time, last_print_time,
                   faces_left, nose_prints, q_pending>>
    /\ UNCHANGED <<ovVars, ldVars, geVars, chatVars>>

\* The user presses 'q' while the display window has focus.
PressQ ==
    /\ pc \notin Terminal
    /\ window
    /\ ~q_pending
    /\ q_pending' = TRUE
    /\ UNCHANGED <<pc, model_file, camera_available, cam_opened, cam_acquired,
                   cam_released, window, stdout, traceback, captured, detected, displayed,
                   current_time, last_print_time, faces_left, nose_prints>>
    /\ UNCHANGED <<ovVars, ldVars, geVars, chatVars>>

\* The capture backend closes the device while the loop runs.
CameraLost ==
    /\ pc \in InLoop
    /\ cam_opened
    /\ cam_opened' = FALSE
    /\ UNCHANGED <<pc, model_file, camera_available, cam_acquired, cam_released, window,
                   stdout, traceback, captured, detected, displayed, current_time,
                   last_print_time, faces_left, nose_prints, q_pending>>
    /\ UNCHANGED <<ovVars, ldVars, geVars, chatVars>>

MainStep ==
    \/ ReadModel
    \/ LoadAsset
    \/ OpenCam
    \/ CreateLandmarker
    \/ LoopTest
    \/ ReadFrame
    \/ ProcessFace
    \/ Show
    \/ WaitKey
    \/ Release

(***************************************************************************)
(* MiniMaxChatClient and main() of the chat client                         *)
(***************************************************************************)

\* self.max_history = 10
max_history == 10

\* stop_after_attempt(3)
max_attempts == 3

SystemMessage == [role |-> "system"]
UserMessage == [role |-> "user"]
AssistantMessage == [role |-> "assistant"]

\* a[-n:] of a list with more than n entries
LastN(a, n) == SubSeq(a, Len(a) - n + 1, Len(a))

trim_tail_only(h) ==
    IF Len(h) > max_history * 2 + 1 THEN LastN(h, max_history * 2 + 1) ELSE h

\* if len(self.history) > (self.max_history * 2 + 1):
\*     self.history = [self.history[0]] + self.history[-(self.max_history * 2):]
trim(h) ==
    IF Len(h) > max_history * 2 + 1
    THEN <<h[1]>> \o LastN(h, max_history * 2)
    ELSE h

\* main(): chat_client.get_response(user_input) for a non-blank input
Call ==
    /\ chat_pc = "idle"
    /\ chat_pc' = "enter"
    /\ attempt' = 1
    /\ UNCHANGED <<history, sent>>
    /\ UNCHANGED <<ovVars, ldVars, geVars, mainVars>>

\* get_response up to the API call: append the user message, trim, send
Enter ==
    /\ chat_pc = "enter"
    /\ history' = trim(Append(history, UserMessage))
    /\ sent' = history'
    /\ chat_pc' = "api"
    /\ UNCHANGED attempt
    /\ UNCHANGED <<ovVars, ldVars, geVars, mainVars>>

\* the API answered: log, append the assistant message, return
ApiOk ==
    /\ chat_pc = "api"
    /\ history' = Append(history, AssistantMessage)
    /\ chat_pc' = "idle"
    /\ UNCHANGED <<attempt, sent>>
    /\ UNCHANGED <<ovVars, ldVars, geVars, mainVars>>

\* the API call raised: log and re-raise to the retry decorator
ApiFail ==
    /\ chat_pc = "api"
    /\ chat_pc' = "raised"
    /\ UNCHANGED <<history, attempt, sent>>
    /\ UNCHANGED <<ovVars, ldVars, geVars, mainVars>>

\* @retry(stop=stop_after_attempt(3), wait=wait_fixed(2)): call again, or give
\* up; main() catches the error, prints it and ends
Retry ==
    /\ chat_pc = "raised"
    /\ IF attempt < max_attempts
       THEN chat_pc' = "enter" /\ attempt' = attempt + 1
       ELSE chat_pc' = "ended" /\ UNCHANGED attempt
    /\ UNCHANGED <<history, sent>>
    /\ UNCHANGED <<ovVars, ldVars, geVars, mainVars>>

\* main(): the user types exit or quit
Quit ==
    /\ chat_pc = "idle"
    /\ chat_pc' = "ended"
    /\ UNCHANGED <<history, attempt, sent>>
    /\ UNCHANGED <<ovVars, ldVars, geVars, mainVars>>

(***************************************************************************)
(* Specifications                                                          *)
(***************************************************************************)

OverlayIdle ==
    /\ background = NoRaster
    /\ overlay = NoRaster
    /\ ox = 0
    /\ oy = 0
    /\ composited = NotCalled

LoaderIdle ==
    /\ source = [kind |-> "missing", img |-> NoRaster]
    /\ loaded = LoaderNotCalled

GeometryIdle ==
    /\ left_iris = <<0, 0>>
    /\ right_iris = <<0, 0>>
    /\ geometry = GeometryNotDerived

MainStart ==
    /\ pc = "read_model"
    /\ cam_opened = FALSE
    /\ cam_acquired = FALSE
    /\ cam_released = FALSE
    /\ window = FALSE
    /\ stdout = {}
    /\ traceback = "none"
    /\ captured = FALSE
    /\ detected = FALSE
    /\ displayed = FALSE
    /\ current_time = 0
    /\ last_print_time = 0
    /\ faces_left = 0
    /\ nose_prints = <<>>
    /\ q_pending = FALSE

MainIdle ==
    /\ MainStart
    /\ model_file = "valid"
    /\ camera_available = TRUE

\* MiniMaxChatClient.__init__
ChatStart ==
    /\ history = <<SystemMessage>>
    /\ chat_pc = "idle"
    /\ attempt = 0
    /\ sent = <<>>

InitOverlay ==
    /\ \E seed \in 0 .. Len(PixelSeq) - 1 : background = BgImage(seed)
    /\ \E cseed \in 0 .. Len(PixelSeq) - 1, amode \in 1 .. 2 * Len(AlphaSeq) :
           overlay = OvImage(cseed, amode)
    /\ ox \in -(OvW + 1) .. BgW + 1
    /\ oy \in -(OvH + 1) .. BgH + 1
    /\ composited = NotCalled
    /\ LoaderIdle
    /\ GeometryIdle
    /\ MainIdle
    /\ ChatStart

Composite ==
    /\ composited = NotCalled
    /\ composited' = overlay_image_alpha(background, overlay, ox, oy)
    /\ UNCHANGED <<background, overlay, ox, oy, ldVars, geVars, mainVars, chatVars>>

NextOverlay == Composite

SpecOverlay == InitOverlay /\ [][NextOverlay]_vars

InitLoader ==
    /\ source \in Sources
    /\ loaded = LoaderNotCalled
    /\ OverlayIdle
    /\ GeometryIdle
    /\ MainIdle
    /\ ChatStart

Load ==
    /\ loaded = LoaderNotCalled
    /\ loaded' = load_sunglasses_with_alpha(source)
    /\ UNCHANGED <<source, ovVars, geVars, mainVars, chatVars>>

NextLoader == Load

SpecLoader == InitLoader /\ [][NextLoader]_vars

InitGeometry ==
    /\ left_iris \in LmCoords \X LmCoords
    /\ right_iris \in LmCoords \X LmCoords
    /\ geometry = GeometryNotDerived
    /\ OverlayIdle
    /\ LoaderIdle
    /\ MainIdle
    /\ ChatStart

Derive ==
    /\ ~geometry.derived
    /\ geometry' = eye_geometry(left_iris, right_iris)
    /\ UNCHANGED <<left_iris, right_iris, ovVars, ldVars, mainVars, chatVars>>

NextGeometry == Derive

SpecGeometry == InitGeometry /\ [][NextGeometry]_vars

InitMain ==
    /\ MainStart
    /\ model_file \in {"missing", "invalid", "valid"}
    /\ camera_available \in BOOLEAN
    /\ source \in MainSources
    /\ loaded = LoaderNotCalled
    /\ OverlayIdle
    /\ GeometryIdle
    /\ ChatStart

NextMain == MainStep \/ PressQ \/ CameraLost

SpecMain == InitMain /\ [][NextMain]_vars

\* The interpreter keeps running main() until it returns or dies; nothing is
\* assumed of the user or of the camera.
LiveMain == SpecMain /\ WF_vars(MainStep)

InitChat ==
    /\ ChatStart
    /\ OverlayIdle
    /\ LoaderIdle
    /\ GeometryIdle
    /\ MainIdle

NextChat == Call \/ Enter \/ ApiOk \/ ApiFail \/ Retry \/ Quit

SpecChat == InitChat /\ [][NextChat]_vars

(***************************************************************************)
(* Claims about overlay_image_alpha (SpecOverlay)                          *)
(***************************************************************************)

Called == composited # NotCalled

\* The background positions covered by the overlay placed at (ox, oy).
Covered(p) ==
    /\ oy <= p[1] /\ p[1] < oy + overlay.h
    /\ ox <= p[2] /\ p[2] < ox + overlay.w

OverlayAt(p) == overlay.px[<<p[1] - oy, p[2] - ox>>]

\* 255 times the exact blend of channel ch at position p.
Exact255(p, ch) ==
    LET o == OverlayAt(p)
    IN o[ch] * o[4] + background.px[p][ch] * (255 - o[4])

\* C1 as stated: every covered background pixel becomes exactly
\* overlay * alpha + background * (1 - alpha), alpha = transparency / 255,
\* taken from the overlay pixel at (r - y, c - x).
C1_ExactBlend ==
    Called =>
        /\ composited.returned
        /\ \A p \in DOMAIN background.px : Covered(p) =>
               \A ch \in 1 .. 3 : 255 * composited.img.px[p][ch] = Exact255(p, ch)

\* C1 amended: every covered background pixel becomes the 8-bit integer the
\* float64 blend truncates to, which lies in [blend - 1, blend] for the blend
\* of the overlay pixel at (r - y, c - x); transparency 255 yields exactly the
\* overlay colour and transparency 0 exactly the previous background colour.
C1_TruncatedBlend ==
    Called =>
        /\ composited.returned
        /\ \A p \in DOMAIN background.px : Covered(p) =>
               \A ch \in 1 .. 3 :
                   LET out == composited.img.px[p][ch]
                       a == OverlayAt(p)[4]
                   IN /\ out \in 0 .. 255
                      /\ 255 * out <= Exact255(p, ch)
                      /\ Exact255(p, ch) - 255 <= 255 * out
                      /\ Exact255(p, ch) % 255 # 0 => 255 * (out + 1) > Exact255(p, ch)
                      /\ a = 255 => out = OverlayAt(p)[ch]
                      /\ a = 0 => out = background.px[p][ch]

\* A half-transparent overlay hanging over the left edge has been blended: a
\* covered pixel took a value that is neither colour.
C1_Witness ==
    /\ Called
    /\ ox < 0
    /\ \E p \in DOMAIN background.px :
           /\ Covered(p)
           /\ OverlayAt(p)[4] = 128
           /\ \E ch \in 1 .. 3 :
                  /\ composited.img.px[p][ch] # OverlayAt(p)[ch]
                  /\ composited.img.px[p][ch] # background.px[p][ch]

\* C2: every background pixel outside the intersection of the placement
\* rectangle and the background is unchanged, for every placement; with no
\* intersection the whole background is returned unchanged; no error is raised.
C2_OutsideUntouched ==
    Called =>
        /\ ~composited.err
        /\ composited.returned
        /\ DOMAIN composited.img.px = DOMAIN background.px
        /\ \A p \in DOMAIN background.px :
               ~Covered(p) => composited.img.px[p] = background.px[p]
        /\ (\A p \in DOMAIN background.px : ~Covered(p)) => composited.img = background

\* An overlay placed at a negative x changed part of the background and left
\* the rest of it as it was.
C2_Witness ==
    /\ Called
    /\ ox < 0
    /\ \E p \in DOMAIN background.px :
           Covered(p) /\ composited.img.px[p] # background.px[p]
    /\ \E p \in DOMAIN background.px :
           ~Covered(p) /\ composited.img.px[p] = background.px[p]

(***************************************************************************)
(* Claims about load_sunglasses_with_alpha (SpecLoader)                    *)
(***************************************************************************)

Loaded == loaded.status = "image"

SourceHasAlpha == \A p \in DOMAIN source.img.px : Len(source.img.px[p]) = 4

\* C7 as stated: a source whose every pixel has brightness at or above the
\* threshold (240 included) gets transparency 0 at every pixel.
C7_AtOrAboveTransparent ==
    (Loaded /\ \A p \in DOMAIN source.img.px : gray(source.img.px[p]) >= WhiteThreshold)
        => \A p \in DOMAIN loaded.img.px : loaded.img.px[p][4] = 0

\* C7 amended: a source whose every pixel has brightness strictly above the
\* threshold gets transparency 0 at every pixel.
C7_AboveTransparent ==
    (Loaded /\ \A p \in DOMAIN source.img.px : gray(source.img.px[p]) > WhiteThreshold)
        => \A p \in DOMAIN loaded.img.px : loaded.img.px[p][4] = 0

\* A source brighter than the threshold everywhere that carried opaque
\* transparency values has been loaded.
C7_Witness ==
    /\ Loaded
    /\ \A p \in DOMAIN source.img.px : gray(source.img.px[p]) > WhiteThreshold
    /\ SourceHasAlpha
    /\ \E p \in DOMAIN source.img.px : source.img.px[p][4] = 255
    /\ \E p \in DOMAIN source.img.px : source.img.px[p] = <<200, 255, 255, 128>>

\* C8 as stated: a source whose every pixel is darker than the threshold gets
\* transparency 255 at every pixel, whatever transparency channel it had.
C8_BelowOpaque ==
    (Loaded /\ \A p \in DOMAIN source.img.px : gray(source.img.px[p]) < WhiteThreshold)
        => \A p \in DOMAIN loaded.img.px : loaded.img.px[p][4] = 255

\* C8 amended: a source whose every pixel is darker than the threshold gets
\* transparency 255 at every pixel when it had no transparency channel, and
\* keeps each pixel's transparency value when it had one.
C8_BelowOpaqueOrKept ==
    (Loaded /\ \A p \in DOMAIN source.img.px : gray(source.img.px[p]) < WhiteThreshold)
        => \A p \in DOMAIN loaded.img.px :
               loaded.img.px[p][4] =
                   IF Len(source.img.px[p]) = 3 THEN 255 ELSE source.img.px[p][4]

\* A dark source with a transparency channel holding a value below 255 has
\* been loaded.
C8_Witness ==
    /\ Loaded
    /\ \A p \in DOMAIN source.img.px : gray(source.img.px[p]) < WhiteThreshold
    /\ SourceHasAlpha
    /\ \E p \in DOMAIN source.img.px : source.img.px[p][4] = 5

(***************************************************************************)
(* Claims about the rotation angle (SpecGeometry)                          *)
(***************************************************************************)

Dx == geometry.right[1] - geometry.left[1]
Dy == geometry.right[2] - geometry.left[2]

\* C9 as stated: the angle is 0 for every pair of eye centres with equal y,
\* whatever their x; with equal x and different y it is +90 or -90.
C9_LevelEyesZero ==
    geometry.derived =>
        /\ Dy = 0 => geometry.angle = Exactly(0)
        /\ (Dx = 0 /\ Dy # 0) => geometry.angle \in {Exactly(90), Exactly(-90)}

\* C9 amended: with equal y the angle is 0 when the right eye centre is not
\* left of the left one and 180 when it is; with equal x and different y it
\* is +90 (right centre lower) or -90 (right centre higher).
C9_LevelEyesZeroOr180 ==
    geometry.derived =>
        /\ (Dy = 0 /\ Dx >= 0) => geometry.angle = Exactly(0)
        /\ (Dy = 0 /\ Dx < 0) => geometry.angle = Exactly(180)
        /\ (Dx = 0 /\ Dy > 0) => geometry.angle = Exactly(90)
        /\ (Dx = 0 /\ Dy < 0) => geometry.angle = Exactly(-90)

\* Level eye centres a positive distance apart gave the angle 0.
C9_Witness ==
    /\ geometry.derived
    /\ Dy = 0
    /\ Dx > 0
    /\ geometry.angle = Exactly(0)

(***************************************************************************)
(* Claims about main() of the webcam filter (SpecMain, LiveMain)           *)
(***************************************************************************)

\* C3: in every terminal state of main() a camera that was acquired has been
\* released and no display window is left.
C3_ReleasedOnEveryStop ==
    pc \in Terminal => ((cam_acquired => cam_released) /\ ~window)

\* C4: once the user has pressed the quit key, the loop eventually exits and
\* main() terminates, also when camera reads fail.
C4_QuitEventuallyExits == q_pending ~> (pc \in Terminal)

StartupFault ==
    \/ model_file # "valid"
    \/ source.kind # "image"
    \/ ~camera_available

Diagnosed ==
    \/ traceback # "none"
    \/ "Error: Failed to load sunglasses image." \in stdout
    \/ "Error: Could not open webcam." \in stdout

\* C5: with a fatal startup error (camera unavailable, overlay asset missing or
\* undecodable, detector model unreadable) main() never enters the frame loop:
\* no frame is captured, detected on or displayed, and when it has stopped a
\* diagnostic has been printed.
C5_FatalStartupAborts ==
    StartupFault =>
        /\ pc \in {"read_model", "load_asset", "open_cam", "create_landmarker"} \cup Terminal
        /\ ~captured /\ ~detected /\ ~displayed
        /\ pc \in Terminal => Diagnosed

\* main() has returned on an undecodable overlay asset, both messages printed.
C5_Witness ==
    /\ pc = "returned"
    /\ source.kind = "undecodable"
    /\ model_file = "valid"
    /\ camera_available
    /\ stdout = {"Error: Could not load sunglasses image",
                 "Error: Failed to load sunglasses image."}

\* C6: any two nose-tip printouts come from frames whose capture timestamps
\* differ by more than one second; one frame prints at most once.
C6_NosePrintRateLimited ==
    \A i, j \in DOMAIN nose_prints :
        i < j => nose_prints[j] - nose_prints[i] > TicksPerSecond

\* A second printout has just been made for a frame with several faces, and a
\* further face of the same frame is still to be processed.
C6_Witness ==
    /\ Len(nose_prints) >= 2
    /\ pc = "faces"
    /\ faces_left > 0
    /\ faces_left < num_faces
    /\ nose_prints[Len(nose_prints)] = current_time
    /\ last_print_time = current_time

(***************************************************************************)
(* Claims about MiniMaxChatClient (SpecChat)                               *)
(***************************************************************************)

\* C10: whenever an attempt has returned or raised, history[0] is the system
\* message and the history has at most 2 * max_history + 2 entries; the list
\* sent to the API has at most 2 * max_history + 1 entries.
C10_HistoryBounded ==
    /\ chat_pc \in {"idle", "raised", "ended"} =>
           /\ history[1] = SystemMessage
           /\ Len(history) <= 2 * max_history + 2
    /\ Len(sent) <= 2 * max_history + 1

\* A call on a full history succeeded at its third attempt.
C10_Witness ==
    /\ chat_pc = "idle"
    /\ attempt = max_attempts
    /\ Len(history) = 2 * max_history + 2
    /\ Len(sent) = 2 * max_history + 1
    /\ history[2] = UserMessage
    /\ history[3] = UserMessage

====
